---- MODULE Spec2Model ----
(***************************************************************************)
(* Model of the load generator of src/src/main.rs: the dispatcher (main),  *)
(* its worker tasks, the bounded mpsc channel between them and the         *)
(* aggregation loop, with the two protocol executors as functions of the   *)
(* outcome the network gives them.                                         *)
(*                                                                         *)
(* Option<T> is modelled as a sequence of length at most one: None is <<>> *)
(* and Some(x) is <<x>>.  A HashMap<K, usize> that is only ever updated by *)
(* "*entry(k).or_insert(0) += 1" is a bag over K, and so is the set of     *)
(* samples of the histogram.  The message texts of the source are Chinese; *)
(* the model's strings are ASCII renderings with the same structure        *)
(* (fixed prefix, then the formatted argument).                            *)
(***************************************************************************)
EXTENDS Integers, Sequences, FiniteSets, Bags, TLC

(* ------------------------------ bounds --------------------------------- *)

\* largest --requests value explored
MaxRequests == 3

\* largest --concurrency value explored
MaxConcurrency == 2

\* largest measured duration, in whole milliseconds (Duration::as_millis)
MaxMillis == 2

(* ------------------------------ inputs --------------------------------- *)

None == <<>>

Some(x) == <<x>>

\* values of --method explored: an HTTP method in lower case, the WebSocket
\* pseudo-method in mixed case, and a string that is neither
Methods == {"get", "Ws", "FOO"}

\* values of --url explored: an http URL, a ws URL, and a string that
\* Url::parse rejects
Urls == {"http://host/", "ws://host/", "not a url"}

\* values of --ws-message and --ws-duration explored
WsMessages == {None, Some("hello")}

WsDurations == {None, Some(1)}

\* status codes the target may answer with
Statuses == {200, 299, 500}

\* texts of the transport errors (reqwest::Error::to_string) explored
TransportErrors == {"operation timed out"}

\* measured durations explored, in whole milliseconds: one below a
\* millisecond and the largest one
Millis == {0, MaxMillis}

WorkerIds == 0 .. (MaxConcurrency - 1)

VARIABLES
    requests,                \* cli.requests
    concurrency,             \* cli.concurrency
    method,                  \* cli.method
    url,                     \* cli.url
    ws_message,              \* cli.ws_message
    ws_duration,             \* cli.ws_duration
    pc,                      \* position of main
    i,                       \* index of the spawn loop (line 259)
    handles,                 \* handles: the worker indices spawned, in order
    senders,                 \* live Sender references: tx and its clones
    chan,                    \* the results buffered in the channel
    worker_requests,         \* per task: the share captured at spawn (line 269)
    wpc,                     \* per task: position of the task body
    wleft,                   \* per task: iterations of its for loop still to run
    wresult,                 \* per task: the result it holds between call and send
    wsent,                   \* per task, history: results it has sent
    histogram,               \* bag of recorded samples
    successful_requests,
    failed_requests,
    error_messages,          \* bag of error texts
    http_status_code_counts, \* bag of status codes
    joined,                  \* handles awaited so far in the join loop
    net_calls,               \* history: network calls attempted
    answers,                 \* history: bag of the outcomes the executors met
    produced,                \* history: bag of results returned by the executors
    received,                \* history: bag of results taken out of the channel
    reported,                \* history: configuration errors printed
    sess                     \* one executor call followed statement by statement

config == <<requests, concurrency, method, url, ws_message, ws_duration>>

main_vars == <<pc, i, handles, joined, reported>>

task_vars == <<worker_requests, wpc, wleft, wresult, wsent>>

agg_vars == <<histogram, successful_requests, failed_requests, error_messages,
              http_status_code_counts, received>>

hist_vars == <<net_calls, answers, produced, sess>>

vars == <<config, main_vars, task_vars, agg_vars, senders, chan, hist_vars, sess>>

(* ----------------------- pure parts of the code ------------------------ *)

\* str::to_uppercase on the method strings explored
to_uppercase(s) ==
    CASE s = "get" -> "GET"
      [] s = "Ws" -> "WS"
      [] s = "ws" -> "WS"
      [] OTHER -> s

\* a match whose arms also take the unknown method string
HttpMethods_AcceptsAny ==
    {"GET", "POST", "PUT", "DELETE", "PATCH", "HEAD", "OPTIONS", "FOO"}

\* the arms of the match of make_http_request that yield a Method
HttpMethods == {"GET", "POST", "PUT", "DELETE", "PATCH", "HEAD", "OPTIONS"}

is_websocket == to_uppercase(method) = "WS"

\* line 223: both branches of the if yield cli.requests
actual_requests_count ==
    IF is_websocket /\ ws_duration # None THEN requests ELSE requests

\* Url::parse on the url strings explored
UrlParses(u) == u # "not a url"

\* client.request(method, url) yields a request that can be sent: the url
\* parses and its scheme is one the HTTP client speaks
HttpUrl(u) == u = "http://host/"

\* connect_async gets as far as opening a connection: the scheme is one
\* the WebSocket client speaks
WsUrl(u) == u = "ws://host/"

\* is_success as a comparison with 200 alone
is_success_Only200(status) == status = 200

\* StatusCode::is_success
is_success(status) == 200 <= status /\ status < 300

\* Display of StatusCode: the code, then its canonical reason
StatusText(status) ==
    CASE status = 200 -> "200 OK"
      [] status = 500 -> "500 Internal Server Error"
      [] status = 404 -> "404 Not Found"
      [] status = 300 -> "300 Multiple Choices"
      [] status = 299 -> "299 <unknown status code>"
      [] OTHER -> "<unknown status code>"

\* the capacity given to mpsc::channel
ChannelCapacity == concurrency * 2

requests_per_worker == actual_requests_count \div concurrency

remainder_requests == actual_requests_count % concurrency

\* the share with the remainder test off by one
WorkerRequests_OffByOne(w) ==
    requests_per_worker + (IF w <= remainder_requests THEN 1 ELSE 0)

\* line 269: the share of worker w
WorkerRequests(w) ==
    requests_per_worker + (IF w < remainder_requests THEN 1 ELSE 0)

RequestResult(duration, success, status_code, error) ==
    [duration |-> duration, success |-> success,
     status_code |-> status_code, error |-> error]

\* what the network does with one HTTP call: a response with a status, or
\* a transport error
HttpOutcomes ==
    {[response |-> Some(s), err |-> ""] : s \in Statuses}
        \cup {[response |-> None, err |-> e] : e \in TransportErrors}

\* whether make_http_request gets as far as request_builder.send() with a
\* request the client can put on the wire
HttpReachesNetwork == to_uppercase(method) \in HttpMethods /\ HttpUrl(url)

\* the outcomes send().await can have: a request built from a url the
\* client cannot use fails in the client with a builder error
HttpSendOutcomes ==
    IF HttpUrl(url) THEN HttpOutcomes
    ELSE {[response |-> None, err |-> "builder error"]}

\* the result of the call with the status code left out of a failure
make_http_request_DropsStatus(out, d) ==
    IF to_uppercase(method) \notin HttpMethods
    THEN RequestResult(d, FALSE, None, Some("unsupported HTTP method: " \o method))
    ELSE IF out.response # None
         THEN LET status == out.response[1]
                  success == is_success(status)
              IN RequestResult(d, success,
                     IF success THEN Some(status) ELSE None,
                     IF success THEN None
                     ELSE Some("HTTP Status: " \o StatusText(status)))
         ELSE RequestResult(d, FALSE, None, Some(out.err))

\* make_http_request: the result for one call, given what send() returned
\* and the elapsed time measured
make_http_request(out, d) ==
    IF to_uppercase(method) \notin HttpMethods
    THEN RequestResult(d, FALSE, None, Some("unsupported HTTP method: " \o method))
    ELSE IF out.response # None
         THEN LET status == out.response[1]
                  success == is_success(status)
              IN RequestResult(d, success, Some(status),
                     IF success THEN None
                     ELSE Some("HTTP Status: " \o StatusText(status)))
         ELSE RequestResult(d, FALSE, None, Some(out.err))

\* what one WebSocket session meets: whether connect_async succeeds and,
\* on an open connection with a message configured, whether the send of the
\* text frame succeeds, with the text of the error otherwise.  A url of
\* another scheme makes connect_async fail before it opens a connection
WsOutcomes ==
    IF WsUrl(url)
    THEN {[connect |-> FALSE, send_ok |-> TRUE, err |-> "connection refused"]}
             \cup {[connect |-> TRUE, send_ok |-> TRUE, err |-> ""]}
             \cup (IF ws_message = None THEN {}
                   ELSE {[connect |-> TRUE, send_ok |-> FALSE,
                          err |-> "connection closed"]})
    ELSE {[connect |-> FALSE, send_ok |-> TRUE, err |-> "URL scheme not supported"]}

WsReachesNetwork == WsUrl(url)

\* the session's result with no message on a failed connect
make_websocket_request_SilentConnectFailure(out, d) ==
    IF ~UrlParses(url)
    THEN RequestResult(d, FALSE, None, Some("URL parse error: relative URL without a base"))
    ELSE IF ~out.connect
         THEN RequestResult(d, FALSE, None, None)
         ELSE IF ws_message # None /\ ~out.send_ok
              THEN RequestResult(d, FALSE, None,
                       Some("WebSocket send failed: " \o out.err))
              ELSE RequestResult(d, TRUE, None, None)

\* make_websocket_request: the result for one session
make_websocket_request(out, d) ==
    IF ~UrlParses(url)
    THEN RequestResult(d, FALSE, None, Some("URL parse error: relative URL without a base"))
    ELSE IF ~out.connect
         THEN RequestResult(d, FALSE, None,
                  Some("WebSocket connect failed: " \o out.err))
         ELSE IF ws_message # None /\ ~out.send_ok
              THEN RequestResult(d, FALSE, None,
                       Some("WebSocket send failed: " \o out.err))
              ELSE RequestResult(d, TRUE, None, None)

\* the sample without the clamp to 1
HistogramSample_Unclamped(r) == r.duration

\* lines 317-321: the sample recorded for a successful result
HistogramSample(r) == IF r.duration > 0 THEN r.duration ELSE 1

Inc(bag, key) == bag (+) SetToBag({key})

\* the key with the message text lost
ErrorKey_DropsText(r) == "unknown error"

\* the key under which a failure is tallied (lines 328-332)
ErrorKey(r) == IF r.error # None THEN r.error[1] ELSE "unknown error"

\* the status tally with insert(status, 1) in place of the increment
CountStatus_Overwrites(counts, r) ==
    IF r.status_code = None THEN counts
    ELSE IF r.status_code[1] \in BagToSet(counts) THEN counts
         ELSE Inc(counts, r.status_code[1])

\* the status tally after result r (lines 323-325 and 334-336)
CountStatus(counts, r) ==
    IF r.status_code # None THEN Inc(counts, r.status_code[1]) ELSE counts

\* the state of an executor call that is not followed statement by
\* statement: no statement run, no time passed, nothing met or returned
NoSession ==
    [phase |-> "idle", clock |-> 0, duration |-> None, trace |-> <<>>,
     out |-> None, result |-> None]

(* ------------------------------- Init ---------------------------------- *)

Init ==
    /\ requests \in 0 .. MaxRequests
    /\ concurrency \in 0 .. MaxConcurrency
    /\ method \in Methods
    /\ url \in Urls
    /\ ws_message \in WsMessages
    /\ ws_duration \in WsDurations
    \* the HTTP executor reads neither WebSocket option
    /\ to_uppercase(method) # "WS" => ws_message = None /\ ws_duration = None
    /\ pc = "build_client"
    /\ i = 0
    /\ handles = <<>>
    /\ senders = 0
    /\ chan = <<>>
    /\ worker_requests = [w \in WorkerIds |-> 0]
    /\ wpc = [w \in WorkerIds |-> "unspawned"]
    /\ wleft = [w \in WorkerIds |-> 0]
    /\ wresult = [w \in WorkerIds |-> None]
    /\ wsent = [w \in WorkerIds |-> 0]
    /\ histogram = EmptyBag
    /\ successful_requests = 0
    /\ failed_requests = 0
    /\ error_messages = EmptyBag
    /\ http_status_code_counts = EmptyBag
    /\ joined = 0
    /\ net_calls = 0
    /\ answers = EmptyBag
    /\ produced = EmptyBag
    /\ received = EmptyBag
    /\ reported = <<>>
    /\ sess = NoSession

(* ------------------------------- main ---------------------------------- *)

\* lines 210-212: Client::builder().timeout(..).build()?  The build can
\* fail (no TLS backend, no resolver configuration); the ? returns the error
BuildClient ==
    /\ pc = "build_client"
    /\ \E ok \in BOOLEAN : pc' = IF ok THEN "channel" ELSE "build_failed"
    /\ UNCHANGED <<config, i, handles, joined, reported, task_vars, agg_vars,
                   senders, chan, net_calls, answers, produced, sess>>

\* line 214: mpsc::channel(cli.concurrency * 2) panics on a capacity of 0;
\* otherwise tx is the one Sender
CreateChannel ==
    /\ pc = "channel"
    /\ IF ChannelCapacity = 0
       THEN pc' = "panicked" /\ senders' = senders
       ELSE pc' = "check_requests" /\ senders' = 1
    /\ UNCHANGED <<config, i, handles, joined, reported, task_vars, agg_vars,
                   chan, net_calls, answers, produced, sess>>

\* lines 229-232
CheckRequests ==
    /\ pc = "check_requests"
    /\ IF actual_requests_count = 0
       THEN pc' = "returned" /\ reported' = Append(reported, "requests is 0")
       ELSE pc' = "check_concurrency" /\ reported' = reported
    /\ UNCHANGED <<config, i, handles, joined, task_vars, agg_vars,
                   senders, chan, net_calls, answers, produced, sess>>

\* lines 233-236
CheckConcurrency ==
    /\ pc = "check_concurrency"
    /\ IF concurrency = 0
       THEN pc' = "returned" /\ reported' = Append(reported, "concurrency is 0")
       ELSE pc' = "spawn" /\ reported' = reported
    /\ UNCHANGED <<config, i, handles, joined, task_vars, agg_vars,
                   senders, chan, net_calls, answers, produced, sess>>

\* a task for every index, also for a share of 0
SpawnsTask_Always(n) == TRUE

\* lines 271-273: a share of 0 gets no task
SpawnsTask(n) == n # 0

\* lines 259-303, one iteration: tx.clone(), the share, and either continue
\* (the clone is dropped again) or tokio::spawn of the task, which owns the
\* clone
SpawnWorker ==
    /\ pc = "spawn"
    /\ i < concurrency
    /\ i' = i + 1
    /\ IF ~SpawnsTask(WorkerRequests(i))
       THEN UNCHANGED <<handles, senders, task_vars>>
       ELSE /\ handles' = Append(handles, i)
            /\ senders' = senders + 1
            /\ worker_requests' = [worker_requests EXCEPT ![i] = WorkerRequests(i)]
            /\ wpc' = [wpc EXCEPT ![i] = "loop"]
            /\ wleft' = [wleft EXCEPT ![i] = WorkerRequests(i)]
            /\ UNCHANGED <<wresult, wsent>>
    /\ UNCHANGED <<config, pc, joined, reported, agg_vars, chan, net_calls, answers,
                   produced, sess>>

\* the spawn loop ending with tx kept alive
DropTx_KeepsTx ==
    /\ pc = "spawn"
    /\ i = concurrency
    /\ pc' = "recv"
    /\ UNCHANGED <<config, i, handles, joined, reported, task_vars, agg_vars,
                   senders, chan, net_calls, answers, produced, sess>>

\* line 305: the spawn loop is over; drop(tx)
DropTx ==
    /\ pc = "spawn"
    /\ i = concurrency
    /\ pc' = "recv"
    /\ senders' = senders - 1
    /\ UNCHANGED <<config, i, handles, joined, reported, task_vars, agg_vars,
                   chan, net_calls, answers, produced, sess>>

(* ------------------------------ workers -------------------------------- *)

\* the executor of this run reaches the network for a call
ReachesNetwork == IF is_websocket THEN WsReachesNetwork ELSE HttpReachesNetwork

\* lines 277/288: the head of the for loop.  With iterations left the task
\* enters the executor; with none left the task body ends and its Sender
\* clone is dropped
WorkerLoop(w) ==
    /\ wpc[w] = "loop"
    /\ IF wleft[w] > 0
       THEN /\ wpc' = [wpc EXCEPT ![w] = "call"]
            /\ wleft' = [wleft EXCEPT ![w] = wleft[w] - 1]
            /\ net_calls' = net_calls + (IF ReachesNetwork THEN 1 ELSE 0)
            /\ senders' = senders
       ELSE /\ wpc' = [wpc EXCEPT ![w] = "finished"]
            /\ senders' = senders - 1
            /\ UNCHANGED <<wleft, net_calls>>
    /\ UNCHANGED <<config, main_vars, worker_requests, wresult, wsent, agg_vars,
                   chan, answers, produced, sess>>

\* what the call of this run's executor can meet: the outcomes of
\* send().await, or those of the WebSocket session
CallOutcomes == IF is_websocket THEN WsOutcomes ELSE HttpSendOutcomes

\* the result the executor of this run returns (lines 276-300)
Execute(out, d) ==
    IF is_websocket THEN make_websocket_request(out, d)
    ELSE make_http_request(out, d)

\* the executor of this run gets as far as asking the network layer: past
\* the method match (HTTP), past Url::parse (WebSocket)
AsksNetwork ==
    IF is_websocket THEN UrlParses(url)
    ELSE to_uppercase(method) \in HttpMethods

\* line 177: the hold time, Duration::from_secs(dur), in milliseconds
HoldMillis == ws_duration[1] * 1000

\* the session that meets `out` gets as far as the hold of lines 175-178
Holds(out) ==
    /\ is_websocket
    /\ ws_duration # None
    /\ UrlParses(url)
    /\ out.connect
    /\ (ws_message # None => out.send_ok)

\* the elapsed time the executor measures when its awaits on the network
\* take d: a session that holds has slept for the hold time as well
Elapsed(out, d) == IF Holds(out) THEN d + HoldMillis ELSE d

\* lines 278-282 / 289-295: the executor returns a result
CallReturns(w) ==
    /\ wpc[w] = "call"
    /\ \E out \in CallOutcomes, d \in Millis :
          /\ wresult' = [wresult EXCEPT ![w] = Some(Execute(out, Elapsed(out, d)))]
          /\ produced' = Inc(produced, Execute(out, Elapsed(out, d)))
          /\ answers' = IF AsksNetwork THEN Inc(answers, out) ELSE answers
    /\ wpc' = [wpc EXCEPT ![w] = "send"]
    /\ UNCHANGED <<config, main_vars, worker_requests, wleft, wsent, agg_vars,
                   senders, chan, net_calls, sess>>

\* the task panics inside the network layer the executor has called: the
\* task ends abnormally, its captured Sender clone is dropped by the unwind
CallPanics(w) ==
    /\ wpc[w] = "call"
    /\ AsksNetwork
    /\ wpc' = [wpc EXCEPT ![w] = "panicked"]
    /\ senders' = senders - 1
    /\ UNCHANGED <<config, main_vars, worker_requests, wleft, wresult, wsent,
                   agg_vars, chan, net_calls, answers, produced, sess>>

\* the peer of a call that went out on the network never answers: the
\* response (HTTP) or the opening handshake (WebSocket) stays pending
CallStalls(w) ==
    /\ wpc[w] = "call"
    /\ ReachesNetwork
    /\ wpc' = [wpc EXCEPT ![w] = "stalled"]
    /\ UNCHANGED <<config, main_vars, worker_requests, wleft, wresult, wsent,
                   agg_vars, senders, chan, net_calls, answers, produced, sess>>

\* lines 210-212: the timeout is a setting of the HTTP client;
\* make_websocket_request (lines 136-140, 155) is given none and awaits
\* connect_async as it is
CallHasTimeout == ~is_websocket

\* what send().await returns when the client's timeout ends the call
TimedOut == [response |-> None, err |-> "operation timed out"]

\* the timeout of the call elapses: the pending call returns an error
TimeoutElapses(w) ==
    /\ wpc[w] = "stalled"
    /\ CallHasTimeout
    /\ wresult' = [wresult EXCEPT ![w] = Some(make_http_request(TimedOut, MaxMillis))]
    /\ produced' = Inc(produced, make_http_request(TimedOut, MaxMillis))
    /\ answers' = Inc(answers, TimedOut)
    /\ wpc' = [wpc EXCEPT ![w] = "send"]
    /\ UNCHANGED <<config, main_vars, worker_requests, wleft, wsent, agg_vars,
                   senders, chan, net_calls, sess>>

\* a channel without a bound
HasCapacity_Unbounded(q) == TRUE

\* the channel has a free slot for one more result
HasCapacity(q) == Len(q) < ChannelCapacity

\* lines 283/296: tx_clone.send(result).await completes once the channel has
\* a free slot (rx lives until main returns, so the send never fails)
Send(w) ==
    /\ wpc[w] = "send"
    /\ HasCapacity(chan)
    /\ chan' = Append(chan, wresult[w][1])
    /\ wresult' = [wresult EXCEPT ![w] = None]
    /\ wpc' = [wpc EXCEPT ![w] = "loop"]
    /\ wsent' = [wsent EXCEPT ![w] = wsent[w] + 1]
    /\ UNCHANGED <<config, main_vars, worker_requests, wleft, agg_vars,
                   senders, net_calls, answers, produced, sess>>

(* ----------------------------- aggregator ------------------------------ *)

\* a loop body that records the latency of failures too
Aggregate_RecordsFailures(r) ==
    IF r.success
    THEN /\ successful_requests' = successful_requests + 1
         /\ histogram' = Inc(histogram, HistogramSample(r))
         /\ http_status_code_counts' = CountStatus(http_status_code_counts, r)
         /\ UNCHANGED <<failed_requests, error_messages>>
    ELSE /\ failed_requests' = failed_requests + 1
         /\ error_messages' = Inc(error_messages, ErrorKey(r))
         /\ http_status_code_counts' = CountStatus(http_status_code_counts, r)
         /\ histogram' = Inc(histogram, HistogramSample(r))
         /\ UNCHANGED successful_requests

\* lines 314-337: the body of the receive loop for result r
Aggregate(r) ==
    IF r.success
    THEN /\ successful_requests' = successful_requests + 1
         /\ histogram' = Inc(histogram, HistogramSample(r))
         /\ http_status_code_counts' = CountStatus(http_status_code_counts, r)
         /\ UNCHANGED <<failed_requests, error_messages>>
    ELSE /\ failed_requests' = failed_requests + 1
         /\ error_messages' = Inc(error_messages, ErrorKey(r))
         /\ http_status_code_counts' = CountStatus(http_status_code_counts, r)
         /\ UNCHANGED <<successful_requests, histogram>>

\* line 313: rx.recv().await yields the oldest buffered result
RecvResult ==
    /\ pc = "recv"
    /\ chan # <<>>
    /\ chan' = Tail(chan)
    /\ received' = Inc(received, Head(chan))
    /\ Aggregate(Head(chan))
    /\ UNCHANGED <<config, main_vars, task_vars, senders, net_calls, answers, produced, sess>>

\* recv yielding None as soon as nothing is buffered
ChannelClosed_IgnoresSenders == chan = <<>>

\* rx.recv() yields None: nothing is buffered and no Sender is left
ChannelClosed == chan = <<>> /\ senders = 0

\* line 313: the loop ends
RecvClosed ==
    /\ pc = "recv"
    /\ ChannelClosed
    /\ pc' = "join"
    /\ UNCHANGED <<config, i, handles, joined, reported, task_vars, agg_vars,
                   senders, chan, net_calls, answers, produced, sess>>

\* a join that counts the units the task left undone
JoinFailure_PerMissing(w) == IF wpc[w] = "panicked" THEN wleft[w] + 1 ELSE 0

\* what handle.await of a terminated task adds to failed_requests
JoinFailure(w) == IF wpc[w] = "panicked" THEN 1 ELSE 0

\* lines 340-345, one iteration: handle.await, an Err counts one failure
JoinWorker ==
    /\ pc = "join"
    /\ joined < Len(handles)
    /\ wpc[handles[joined + 1]] \in {"finished", "panicked"}
    /\ failed_requests' = failed_requests + JoinFailure(handles[joined + 1])
    /\ joined' = joined + 1
    /\ UNCHANGED <<config, pc, i, handles, reported, task_vars, histogram,
                   successful_requests, error_messages, http_status_code_counts,
                   received, senders, chan, net_calls, answers, produced, sess>>

\* lines 347-392: the summary is printed and main returns
Summarise ==
    /\ pc = "join"
    /\ joined = Len(handles)
    /\ pc' = "done"
    /\ UNCHANGED <<config, i, handles, joined, reported, task_vars, agg_vars,
                   senders, chan, net_calls, answers, produced, sess>>

Next ==
    \/ BuildClient
    \/ CreateChannel
    \/ CheckRequests
    \/ CheckConcurrency
    \/ SpawnWorker
    \/ DropTx
    \/ \E w \in WorkerIds : WorkerLoop(w)
    \/ \E w \in WorkerIds : CallReturns(w)
    \/ \E w \in WorkerIds : CallPanics(w)
    \/ \E w \in WorkerIds : CallStalls(w)
    \/ \E w \in WorkerIds : TimeoutElapses(w)
    \/ \E w \in WorkerIds : Send(w)
    \/ RecvResult
    \/ RecvClosed
    \/ JoinWorker
    \/ Summarise

Spec == Init /\ [][Next]_vars

\* the steps of main
Main ==
    \/ BuildClient
    \/ CreateChannel
    \/ CheckRequests
    \/ CheckConcurrency
    \/ SpawnWorker
    \/ DropTx
    \/ RecvResult
    \/ RecvClosed
    \/ JoinWorker
    \/ Summarise

\* the steps of task w, those of the network it waits for included
Task(w) ==
    \/ WorkerLoop(w)
    \/ CallReturns(w)
    \/ CallPanics(w)
    \/ CallStalls(w)
    \/ TimeoutElapses(w)
    \/ Send(w)

\* the run under the runtime's scheduling: main and every spawned task keep
\* being polled while they can take a step, and a call that can come to an
\* end does
FairSpec ==
    /\ Spec
    /\ WF_vars(Main)
    /\ \A w \in WorkerIds : WF_vars(Task(w))

(* --------------- one executor call, statement by statement ------------- *)

\* sess follows one call of this run's executor: phase is the statement the
\* call has reached, clock the time since start = Instant::now(), duration
\* the reading of start.elapsed() that goes into the result, trace the
\* operations done so far in order, out what the network layer returned,
\* result the RequestResult returned.

rest_vars ==
    <<config, main_vars, task_vars, agg_vars, senders, chan, net_calls,
      answers, produced>>

\* the argument of make_http_request for a call that never reached send()
Unasked == [response |-> None, err |-> ""]

\* the argument of make_websocket_request for a session that never reached
\* connect_async
Unconnected == [connect |-> FALSE, send_ok |-> TRUE, err |-> ""]

\* the call is at `phase` with `events` appended to its trace
Advance(phase, events) ==
    [sess EXCEPT !.phase = phase, !.trace = sess.trace \o events]

\* line 82: let start = Instant::now()
HttpStart ==
    /\ ~is_websocket
    /\ sess.phase = "idle"
    /\ sess' = Advance("match_method", <<"start_timer">>)
    /\ UNCHANGED rest_vars

\* lines 91-98: the catch-all arm of the match returns a failure at once
HttpUnsupported ==
    /\ sess.phase = "match_method"
    /\ to_uppercase(method) \notin HttpMethods
    /\ sess' = [Advance("returned", <<"stop_timer">>) EXCEPT
                   !.duration = Some(sess.clock),
                   !.result = Some(make_http_request(Unasked, sess.clock))]
    /\ UNCHANGED rest_vars

\* lines 101-111: the request is built and request_builder.send().await
\* returns a response or an error after some time
HttpSend ==
    /\ sess.phase = "match_method"
    /\ to_uppercase(method) \in HttpMethods
    /\ \E out \in HttpSendOutcomes, dt \in Millis :
          sess' = [Advance(IF out.response # None THEN "response" ELSE "send_failed",
                           <<"send">>) EXCEPT
                      !.clock = sess.clock + dt,
                      !.out = Some(out)]
    /\ UNCHANGED rest_vars

\* lines 113-115: Ok(response): status read, let duration = start.elapsed()
HttpStopTimer ==
    /\ sess.phase = "response"
    /\ sess' = [Advance("drain", <<"stop_timer">>) EXCEPT
                   !.duration = Some(sess.clock)]
    /\ UNCHANGED rest_vars

\* line 117: let _ = response.bytes().await, which takes some time
HttpDrainBody ==
    /\ sess.phase = "drain"
    /\ \E dt \in Millis :
          sess' = [Advance("drained", <<"drain_body">>) EXCEPT
                      !.clock = sess.clock + dt]
    /\ UNCHANGED rest_vars

\* lines 118-124: the result of the Ok arm, with the duration read at 115
HttpReturn ==
    /\ sess.phase = "drained"
    /\ sess' = [Advance("returned", <<>>) EXCEPT
                   !.result = Some(make_http_request(sess.out[1], sess.duration[1]))]
    /\ UNCHANGED rest_vars

\* lines 126-131: the Err arm, duration: start.elapsed()
HttpSendFailed ==
    /\ sess.phase = "send_failed"
    /\ sess' = [Advance("returned", <<"stop_timer">>) EXCEPT
                   !.duration = Some(sess.clock),
                   !.result = Some(make_http_request(sess.out[1], sess.clock))]
    /\ UNCHANGED rest_vars

\* line 141: let start = Instant::now()
WsStart ==
    /\ is_websocket
    /\ sess.phase = "idle"
    /\ sess' = Advance("parse_url", <<"start_timer">>)
    /\ UNCHANGED rest_vars

\* lines 142-152: Url::parse; its Err arm returns a failure at once
WsParseUrl ==
    /\ sess.phase = "parse_url"
    /\ IF UrlParses(url)
       THEN sess' = Advance("connect", <<"parse_url">>)
       ELSE sess' = [Advance("returned", <<"parse_url", "stop_timer">>) EXCEPT
                        !.duration = Some(sess.clock),
                        !.result = Some(make_websocket_request(Unconnected, sess.clock))]
    /\ UNCHANGED rest_vars

\* line 155: connect_async(..).await returns after some time; out also
\* holds what a send on the connection is going to meet
WsConnect ==
    /\ sess.phase = "connect"
    /\ \E out \in WsOutcomes, dt \in Millis :
          sess' = [Advance(IF out.connect THEN "connected" ELSE "connect_failed",
                           <<"connect">>) EXCEPT
                      !.clock = sess.clock + dt,
                      !.out = Some(out)]
    /\ UNCHANGED rest_vars

\* lines 197-202: the Err arm of the connect
WsConnectFailed ==
    /\ sess.phase = "connect_failed"
    /\ sess' = [Advance("returned", <<"stop_timer">>) EXCEPT
                   !.duration = Some(sess.clock),
                   !.result = Some(make_websocket_request(sess.out[1], sess.clock))]
    /\ UNCHANGED rest_vars

\* a session that sends a frame whether a message is configured or not
SendsMessage_Always == TRUE

\* line 160: if let Some(msg) = message
SendsMessage == ws_message # None

\* lines 160-162: with a message, ws_stream.send(Message::Text(..)).await,
\* which takes some time; with none, nothing
WsSend ==
    /\ sess.phase = "connected"
    /\ IF SendsMessage
       THEN \E dt \in Millis :
               sess' = [Advance(IF sess.out[1].send_ok THEN "sent" ELSE "send_failed_ws",
                                <<"send">>) EXCEPT
                           !.clock = sess.clock + dt]
       ELSE sess' = Advance("sent", <<>>)
    /\ UNCHANGED rest_vars

\* lines 162-164: the send failed: let total_duration = start.elapsed()
WsSendFailed ==
    /\ sess.phase = "send_failed_ws"
    /\ sess' = [Advance("closing", <<"stop_timer">>) EXCEPT
                   !.duration = Some(sess.clock)]
    /\ UNCHANGED rest_vars

\* lines 165-171: ws_stream.close(None).await, which takes some time, then
\* the failure result with the duration read at 163
WsCloseFailed ==
    /\ sess.phase = "closing"
    /\ \E dt \in Millis :
          sess' = [Advance("returned", <<"close">>) EXCEPT
                      !.clock = sess.clock + dt,
                      !.result = Some(make_websocket_request(sess.out[1], sess.duration[1]))]
    /\ UNCHANGED rest_vars

\* lines 175-178: tokio::time::sleep(Duration::from_secs(dur)).await, then
\* total_duration = start.elapsed()
WsHold ==
    /\ sess.phase = "sent"
    /\ ws_duration # None
    /\ sess' = [Advance("held", <<"sleep", "stop_timer">>) EXCEPT
                   !.clock = sess.clock + HoldMillis,
                   !.duration = Some(sess.clock + HoldMillis)]
    /\ UNCHANGED rest_vars

\* lines 179-185: ws_stream.close(None).await, then the success result
WsCloseHeld ==
    /\ sess.phase = "held"
    /\ \E dt \in Millis :
          sess' = [Advance("returned", <<"close">>) EXCEPT
                      !.clock = sess.clock + dt,
                      !.result = Some(make_websocket_request(sess.out[1], sess.duration[1]))]
    /\ UNCHANGED rest_vars

\* lines 186-195: no hold: ws_stream.close(None).await, then the success
\* result with duration: start.elapsed()
WsClose ==
    /\ sess.phase = "sent"
    /\ ws_duration = None
    /\ \E dt \in Millis :
          sess' = [Advance("returned", <<"close", "stop_timer">>) EXCEPT
                      !.clock = sess.clock + dt,
                      !.duration = Some(sess.clock + dt),
                      !.result = Some(make_websocket_request(sess.out[1], sess.clock + dt))]
    /\ UNCHANGED rest_vars

\* task 0 of a run of one unit and one worker is about to call the executor
InitSession ==
    /\ requests = 1
    /\ concurrency = 1
    /\ method \in Methods
    /\ url \in Urls
    /\ ws_message \in WsMessages
    /\ ws_duration \in WsDurations
    /\ to_uppercase(method) # "WS" => ws_message = None /\ ws_duration = None
    /\ pc = "recv"
    /\ i = 1
    /\ handles = <<0>>
    /\ senders = 1
    /\ chan = <<>>
    /\ worker_requests = [w \in WorkerIds |-> IF w = 0 THEN 1 ELSE 0]
    /\ wpc = [w \in WorkerIds |-> IF w = 0 THEN "call" ELSE "unspawned"]
    /\ wleft = [w \in WorkerIds |-> 0]
    /\ wresult = [w \in WorkerIds |-> None]
    /\ wsent = [w \in WorkerIds |-> 0]
    /\ histogram = EmptyBag
    /\ successful_requests = 0
    /\ failed_requests = 0
    /\ error_messages = EmptyBag
    /\ http_status_code_counts = EmptyBag
    /\ joined = 0
    /\ net_calls = 0
    /\ answers = EmptyBag
    /\ produced = EmptyBag
    /\ received = EmptyBag
    /\ reported = <<>>
    /\ sess = NoSession

NextSession ==
    \/ HttpStart
    \/ HttpUnsupported
    \/ HttpSend
    \/ HttpStopTimer
    \/ HttpDrainBody
    \/ HttpReturn
    \/ HttpSendFailed
    \/ WsStart
    \/ WsParseUrl
    \/ WsConnect
    \/ WsConnectFailed
    \/ WsSend
    \/ WsSendFailed
    \/ WsCloseFailed
    \/ WsHold
    \/ WsCloseHeld
    \/ WsClose

SpecSession == InitSession /\ [][NextSession]_vars

(* ------------------------- derived quantities -------------------------- *)

\* main has stopped: returned, panicked, or printed the summary
Ended == pc \in {"build_failed", "panicked", "returned", "done"}

\* the worker indices of this run
Workers == 0 .. (concurrency - 1)

\* the tasks spawned so far
Spawned == {handles[k] : k \in 1 .. Len(handles)}

RECURSIVE SumOf(_, _)
\* the sum of f[x] over the finite set S
SumOf(f, S) ==
    IF S = {} THEN 0
    ELSE LET x == CHOOSE y \in S : TRUE IN f[x] + SumOf(f, S \ {x})

RECURSIVE BagOfSeq(_)
\* the bag of the elements of a sequence
BagOfSeq(q) == IF q = <<>> THEN EmptyBag ELSE Inc(BagOfSeq(Tail(q)), Head(q))

RECURSIVE BagOfHeld(_)
\* the bag of the results the tasks of S hold between call and send
BagOfHeld(S) ==
    IF S = {} THEN EmptyBag
    ELSE LET w == CHOOSE y \in S : TRUE
         IN IF wresult[w] = None THEN BagOfHeld(S \ {w})
            ELSE Inc(BagOfHeld(S \ {w}), wresult[w][1])

\* how many elements of bag B satisfy P
CountWhere(B, P(_)) == SumOf(B, {r \in BagToSet(B) : P(r)})

\* the tally of Key(r) over the elements r of bag B that satisfy P, computed
\* from the bag as a whole
Tally(B, Key(_), P(_)) ==
    LET rs == {r \in BagToSet(B) : P(r)}
    IN [k \in {Key(r) : r \in rs} |-> SumOf(B, {r \in rs : Key(r) = k})]

\* the failures the join loop has counted so far
JoinFailures ==
    Cardinality({k \in 1 .. joined : wpc[handles[k]] = "panicked"})

(* ------------------------------- claims -------------------------------- *)

\* C1: after the run (all workers joined) success_count + failure_count
\* equals the number of requests N, also when a worker task ended abnormally
\* with results of its share unsent.
C1_TotalEqualsRequests ==
    pc = "done" => successful_requests + failed_requests = actual_requests_count

\* C2: once the spawn loop is over, worker w has base+1 units exactly when
\* w < N mod C and base = N div C otherwise; the shares sum to N and any two
\* differ by at most 1.
C2_FairPartition ==
    pc \in {"recv", "join", "done"} =>
        /\ SumOf(worker_requests, Workers) = requests
        /\ \A w \in Workers :
              worker_requests[w] =
                  IF w < requests % concurrency
                  THEN (requests \div concurrency) + 1
                  ELSE requests \div concurrency
        /\ \A v, w \in Workers :
              /\ worker_requests[v] - worker_requests[w] <= 1
              /\ worker_requests[w] - worker_requests[v] <= 1

\* C2 witness: 3 requests over 2 workers were dealt as 2 and 1
C2_Witness ==
    /\ pc = "recv"
    /\ requests = 3
    /\ concurrency = 2
    /\ worker_requests[0] = 2
    /\ worker_requests[1] = 1

\* C3: with N = 0 or C = 0 the run never panics and, once it has ended with
\* a client built, it has ended in a reported configuration error with no
\* worker spawned, no network call made and no result produced.
C3_ConfigurationErrorReported ==
    (requests = 0 \/ concurrency = 0) =>
        /\ pc # "panicked"
        /\ pc \in {"returned", "done"} =>
              /\ pc = "returned"
              /\ Len(reported) = 1
        /\ handles = <<>>
        /\ net_calls = 0
        /\ produced = EmptyBag

\* every spawned task has run to its end, nothing is buffered or held
AllSent ==
    /\ chan = <<>>
    /\ \A w \in Spawned :
          /\ wpc[w] \in {"finished", "panicked"}
          /\ wresult[w] = None
          /\ wpc[w] = "finished" => wleft[w] = 0

\* C4: the receive loop has ended only if the channel is empty and every
\* spawned task is over with nothing left to send; and while main is in the
\* loop, the loop can end exactly when the channel is empty and every
\* spawned task is over (joined or not).
C4_LoopEndsWhenClosed ==
    /\ pc \in {"join", "done"} => AllSent /\ senders = 0
    /\ pc = "recv" => (ChannelClosed <=> AllSent)

\* C4 witness: the loop has ended with both tasks over and none joined yet
C4_Witness ==
    /\ pc = "join"
    /\ joined = 0
    /\ Len(handles) = 2
    /\ BagCardinality(received) = requests

\* a task is blocked in send on a full channel
Blocked(w) == wpc[w] = "send" /\ Len(chan) = 2 * concurrency

\* C5: the channel never holds more than 2*C results; every result produced
\* is in exactly one place: received, buffered, or held by its task; a
\* task blocked on a full channel is waiting for a receiver that is still to
\* take a result; and when the loop has ended every result produced has been
\* received exactly once.
C5_BoundedWithoutLoss ==
    /\ Len(chan) <= 2 * concurrency
    /\ produced = received (+) BagOfSeq(chan) (+) BagOfHeld(Workers)
    /\ \A w \in Workers :
          Blocked(w) => pc \in {"spawn", "recv"} /\ chan # <<>>
    /\ pc \in {"join", "done"} => received = produced

\* C5 witness: the only worker holds its third result while the channel of
\* capacity 2 is full
C5_Witness ==
    /\ concurrency = 1
    /\ pc = "recv"
    /\ Blocked(0)
    /\ BagCardinality(produced) = 3

IsSuccess(r) == r.success

IsFailure(r) == ~r.success

HasStatus(r) == r.status_code # None

StatusOf(r) == r.status_code[1]

MessageOf(r) == IF r.error = None THEN "unknown error" ELSE r.error[1]

ClampedMillis(r) == IF r.duration = 0 THEN 1 ELSE r.duration

\* C6: once the receive loop has ended, the aggregate state is the one
\* determined by the bag of results produced, whatever the order in which
\* they went through the channel (the join loop adds its own failures).
C6_OrderIndependent ==
    pc \in {"join", "done"} =>
        /\ successful_requests = CountWhere(produced, IsSuccess)
        /\ failed_requests = CountWhere(produced, IsFailure) + JoinFailures
        /\ http_status_code_counts = Tally(produced, StatusOf, HasStatus)
        /\ error_messages = Tally(produced, MessageOf, IsFailure)
        /\ histogram = Tally(produced, ClampedMillis, IsSuccess)

\* C6 witness: a run of two workers ended with results of both kinds
C6_Witness ==
    /\ pc = "done"
    /\ Len(handles) = 2
    /\ requests = 3
    /\ successful_requests >= 1
    /\ BagCardinality(error_messages) >= 1
    /\ BagCardinality(http_status_code_counts) = 3

\* any value of the RequestResult struct, whether or not an executor of this
\* program builds it
AnyResults ==
    [duration : Millis, success : BOOLEAN,
     status_code : {None} \cup {Some(st) : st \in Statuses},
     error : {None, Some("connection reset")}]

\* the receive loop on its own, fed by an arbitrary producer that has
\* finished: the channel of a one-worker run holds any one or two
\* RequestResult values
InitAggregator ==
    /\ chan \in {<<a>> : a \in AnyResults} \cup {<<a, b>> : a, b \in AnyResults}
    /\ requests = Len(chan)
    /\ concurrency = 1
    /\ method = "get"
    /\ url = "http://host/"
    /\ ws_message = None
    /\ ws_duration = None
    /\ pc = "recv"
    /\ i = 1
    /\ handles = <<0>>
    /\ senders = 0
    /\ worker_requests = [w \in WorkerIds |-> IF w = 0 THEN Len(chan) ELSE 0]
    /\ wpc = [w \in WorkerIds |-> IF w = 0 THEN "finished" ELSE "unspawned"]
    /\ wleft = [w \in WorkerIds |-> 0]
    /\ wresult = [w \in WorkerIds |-> None]
    /\ wsent = [w \in WorkerIds |-> IF w = 0 THEN Len(chan) ELSE 0]
    /\ histogram = EmptyBag
    /\ successful_requests = 0
    /\ failed_requests = 0
    /\ error_messages = EmptyBag
    /\ http_status_code_counts = EmptyBag
    /\ joined = 0
    /\ net_calls = Len(chan)
    /\ answers = EmptyBag
    /\ produced = BagOfSeq(chan)
    /\ received = EmptyBag
    /\ reported = <<>>
    /\ sess = NoSession

NextAggregator ==
    \/ RecvResult
    \/ RecvClosed

SpecAggregator == InitAggregator /\ [][NextAggregator]_vars

\* C7: each receive takes one result and makes one update.  A success adds
\* 1 to the success count and one sample to the histogram and leaves the
\* failure count and the error tally alone; a failure adds 1 to the failure
\* count and 1 to the tally of its exact message, or of the unknown-error
\* key when it has none, and leaves the success count and the histogram
\* alone; either adds 1 to the tally of the status code when there is one.
C7_OneUpdatePerResult ==
    [][received' # received =>
          LET r == Head(chan)
              key == IF r.error = None THEN "unknown error" ELSE r.error[1]
          IN /\ chan' = Tail(chan)
             /\ received' = received (+) SetToBag({r})
             /\ IF r.success
                THEN /\ successful_requests' = successful_requests + 1
                     /\ BagCardinality(histogram') = BagCardinality(histogram) + 1
                     /\ failed_requests' = failed_requests
                     /\ error_messages' = error_messages
                ELSE /\ failed_requests' = failed_requests + 1
                     /\ CopiesIn(key, error_messages')
                            = CopiesIn(key, error_messages) + 1
                     /\ BagCardinality(error_messages')
                            = BagCardinality(error_messages) + 1
                     /\ successful_requests' = successful_requests
                     /\ histogram' = histogram
             /\ IF r.status_code = None
                THEN http_status_code_counts' = http_status_code_counts
                ELSE /\ CopiesIn(r.status_code[1], http_status_code_counts')
                            = CopiesIn(r.status_code[1], http_status_code_counts) + 1
                     /\ BagCardinality(http_status_code_counts')
                            = BagCardinality(http_status_code_counts) + 1]_vars

\* C7 witness: a failure without a message and one with a message and a
\* status code have both been aggregated
C7_Witness ==
    /\ pc = "recv"
    /\ failed_requests = 2
    /\ CopiesIn("unknown error", error_messages) = 1
    /\ CopiesIn("connection reset", error_messages) = 1
    /\ BagCardinality(http_status_code_counts) = 1

\* every call of the run met the outcome out
AllAnswered(out) ==
    /\ BagToSet(answers) = {out}
    /\ answers[out] = requests

Only(key, n) == [k \in {key} |-> n]

\* C8: an HTTP run whose N calls all got the same 2xx status s ends with N
\* successes, no failure, status tally {s: N} and no error; all the same
\* non-2xx status s: N failures, status tally {s: N} and one error key, the
\* one describing s, of count N; all the same transport error: N failures,
\* no status tally and one error key of count N.
C8_UniformHttpRun ==
    (pc = "done" /\ ~is_websocket) =>
        /\ \A s \in Statuses :
              AllAnswered([response |-> Some(s), err |-> ""]) =>
                  IF s \in 200 .. 299
                  THEN /\ successful_requests = requests
                       /\ failed_requests = 0
                       /\ http_status_code_counts = Only(s, requests)
                       /\ error_messages = EmptyBag
                  ELSE /\ successful_requests = 0
                       /\ failed_requests = requests
                       /\ http_status_code_counts = Only(s, requests)
                       /\ error_messages
                              = Only("HTTP Status: " \o StatusText(s), requests)
        /\ \A e \in TransportErrors \cup {"builder error"} :
              AllAnswered([response |-> None, err |-> e]) =>
                  /\ successful_requests = 0
                  /\ failed_requests = requests
                  /\ http_status_code_counts = EmptyBag
                  /\ error_messages = Only(e, requests)

\* C8 witness: three calls, each answered 500
C8_Witness ==
    /\ pc = "done"
    /\ ~is_websocket
    /\ requests = 3
    /\ AllAnswered([response |-> Some(500), err |-> ""])
    /\ failed_requests = 3

\* C9: every sample of the histogram is at least 1; a successful result of
\* less than a millisecond is recorded as 1, one of m >= 1 milliseconds as
\* m, and there is one sample per successful result received.
C9_SamplesAtLeastOne ==
    /\ \A v \in BagToSet(histogram) : v >= 1
    /\ \A m \in (1 .. MaxMillis) \cup BagToSet(histogram) :
          CopiesIn(m, histogram) =
              CountWhere(received,
                  LAMBDA r : r.success /\ (r.duration = m \/ (m = 1 /\ r.duration = 0)))
    /\ BagCardinality(histogram) = CountWhere(received, IsSuccess)

\* C9 witness: a sub-millisecond success and a longer one were both recorded
C9_Witness ==
    /\ CountWhere(received, LAMBDA r : r.success /\ r.duration = 0) >= 1
    /\ CountWhere(received, LAMBDA r : r.success /\ r.duration = MaxMillis) >= 1
    /\ CopiesIn(1, histogram) >= 1

\* C10: a step of the join loop adds exactly 1 to the failure count when the
\* awaited task ended abnormally and nothing when it ended normally, and
\* changes no other part of the aggregate state.
C10_JoinCountsOnePerPanic ==
    [][joined' # joined =>
          /\ joined' = joined + 1
          /\ failed_requests' = failed_requests
                 + (IF wpc[handles[joined + 1]] = "panicked" THEN 1 ELSE 0)
          /\ UNCHANGED <<successful_requests, histogram, error_messages,
                         http_status_code_counts>>]_vars

\* C10 witness: a task of share 3 sent one result, panicked in its second
\* call, and was joined as one failure
C10_Witness ==
    /\ pc = "done"
    /\ wpc[0] = "panicked"
    /\ worker_requests[0] = 3
    /\ wleft[0] = 1
    /\ BagCardinality(received) = 1
    /\ failed_requests = CountWhere(received, IsFailure) + 1

\* a task is inside an executor call
InCall(w) == wpc[w] \in {"call", "stalled"}

\* a WebSocket session of the run waits for a handshake that never completes
WsStalled == is_websocket /\ \E w \in WorkerIds : wpc[w] = "stalled"

NoTaskPanicked == \A w \in WorkerIds : wpc[w] # "panicked"

\* what task w has left to do: 5 steps at most for each unit not started,
\* and the steps left of the unit in hand
TaskSteps(w) ==
    5 * wleft[w] + (CASE wpc[w] = "call" -> 5
                      [] wpc[w] = "stalled" -> 4
                      [] wpc[w] = "send" -> 3
                      [] wpc[w] = "loop" -> 1
                      [] OTHER -> 0)

\* what the tasks 0 .. n-1 have left to do
RECURSIVE TaskStepsBelow(_)

TaskStepsBelow(n) ==
    IF n = 0 THEN 0 ELSE TaskSteps(n - 1) + TaskStepsBelow(n - 1)

\* what main has left to do before it returns
MainSteps ==
    CASE pc = "build_client" -> 7
      [] pc = "channel" -> 6
      [] pc = "check_requests" -> 5
      [] pc = "check_concurrency" -> 4
      [] pc = "spawn" -> 3
      [] pc = "recv" -> 2
      [] pc = "join" -> 1
      [] OTHER -> 0

\* a bound on the steps the run has left: those of main, of the spawn loop
\* (an iteration adds one task with at most the whole of N as its share),
\* of the tasks, of the results waiting in the channel and of the joins
StepsLeft ==
    MainSteps + (5 * requests + 3) * (concurrency - i)
        + TaskStepsBelow(concurrency)
        + Len(chan) + (Len(handles) - joined)

\* C11: a run stops only when main has returned or a WebSocket call never
\* returns, and every step brings the run nearer to its end, so that under
\* fair scheduling every run whose calls return ends with the summary; and
\* a run that ended with no task panicked has had every task send its whole
\* share, whatever the number of failed units.
C11_RunCompletes ==
    /\ [](~ENABLED Next => Ended \/ WsStalled)
    /\ [][StepsLeft' < StepsLeft]_vars
    /\ [](pc = "done" /\ NoTaskPanicked =>
             /\ \A w \in Spawned : wsent[w] = worker_requests[w]
             /\ BagCardinality(received) = requests
             /\ joined = Len(handles))

\* C11 witness: a run of two workers ended with all three units failed and
\* all three results received
C11_Witness ==
    /\ pc = "done"
    /\ NoTaskPanicked
    /\ Len(handles) = 2
    /\ requests = 3
    /\ failed_requests = 3
    /\ BagCardinality(received) = 3

\* the call followed by sess has returned
Returned == sess.result # None

\* send() of the call followed by sess returned a response
Answered == sess.out # None /\ sess.out[1].response # None

\* the number of times event e is in trace t
Count(t, e) == Cardinality({k \in 1 .. Len(t) : t[k] = e})

\* some a comes before some b in trace t
Before(t, a, b) ==
    \E x, y \in 1 .. Len(t) : x < y /\ t[x] = a /\ t[y] = b

\* C12: a result returned by the HTTP executor has success true exactly
\* when a response came with a status in 200..299; success implies no error
\* message; a response outside 2xx gives a failure with that status code
\* and the message of the status; a transport failure gives a failure with
\* no status code and the message of the transport error; a status code is
\* present only when a response came.
C12_HttpResultShape ==
    (~is_websocket /\ Returned) =>
        LET r == sess.result[1]
            status == sess.out[1].response[1]
        IN /\ r.success <=> (Answered /\ status \in 200 .. 299)
           /\ r.success => r.error = None
           /\ (Answered /\ status \notin 200 .. 299) =>
                 /\ ~r.success
                 /\ r.status_code = Some(status)
                 /\ r.error = Some("HTTP Status: " \o StatusText(status))
           /\ (sess.out # None /\ ~Answered) =>
                 /\ ~r.success
                 /\ r.status_code = None
                 /\ r.error = Some(sess.out[1].err)
           /\ r.status_code # None => Answered /\ r.status_code = Some(status)

\* C12 witness: the HTTP executor has returned the failure of a 500
\* response
C12_Witness ==
    /\ ~is_websocket
    /\ Returned
    /\ Answered
    /\ sess.out[1].response = Some(500)
    /\ ~sess.result[1].success

\* the place of a session's operation in the order validate URL, connect,
\* send, hold, close
SessionOrder(e) ==
    CASE e = "parse_url" -> 1
      [] e = "connect" -> 2
      [] e = "send" -> 3
      [] e = "sleep" -> 4
      [] e = "close" -> 5
      [] OTHER -> 0

SessionEvents(t) == {k \in 1 .. Len(t) : SessionOrder(t[k]) # 0}

\* C13: a WebSocket session does its operations in the order validate URL,
\* connect, send, hold, close, each at most once; it sends only after a
\* successful connect and only with a message configured, and receives no
\* frame; it returns once, with no status code; a malformed URL or a failed
\* connect gives a failure without a send; a failed send gives a failure
\* whose duration was read before the close, without a hold; otherwise the
\* session holds if a duration is configured, closes and gives a success.
C13_WsSessionOrder ==
    is_websocket =>
        LET t == sess.trace
            connected == sess.out # None /\ sess.out[1].connect
            send_failed == connected /\ Count(t, "send") = 1 /\ ~sess.out[1].send_ok
        IN /\ \A x, y \in SessionEvents(t) :
                 x < y => SessionOrder(t[x]) < SessionOrder(t[y])
           /\ Count(t, "send") <= 1
           /\ Count(t, "send") = 1 =>
                 connected /\ ws_message # None /\ Before(t, "connect", "send")
           /\ Count(t, "recv") = 0
           /\ Returned <=> sess.phase = "returned"
           /\ Returned =>
                 LET r == sess.result[1]
                 IN /\ r.status_code = None
                    /\ r.duration = sess.duration[1]
                    /\ Count(t, "stop_timer") = 1
                    /\ ~connected =>
                          /\ ~r.success
                          /\ Count(t, "send") = 0
                          /\ Count(t, "close") = 0
                    /\ send_failed =>
                          /\ ~r.success
                          /\ Before(t, "stop_timer", "close")
                          /\ Count(t, "sleep") = 0
                    /\ (connected /\ ~send_failed) =>
                          /\ r.success
                          /\ Count(t, "send") = 1 <=> ws_message # None
                          /\ Count(t, "sleep") = 1 <=> ws_duration # None
                          /\ Count(t, "close") = 1

\* C13 witness: a session with a message and a hold duration has connected,
\* sent, held and closed, and returned a success
C13_Witness ==
    /\ is_websocket
    /\ Returned
    /\ sess.result[1].success
    /\ sess.trace = <<"start_timer", "parse_url", "connect", "send", "sleep",
                      "stop_timer", "close">>

\* C15: when the HTTP executor returns the result of a response, the timer
\* was stopped after the body was drained, and the duration in the result
\* is the time elapsed when the body read completed.
C15_TimerStoppedAfterDrain ==
    (~is_websocket /\ Returned /\ Answered) =>
        /\ Before(sess.trace, "drain_body", "stop_timer")
        /\ sess.result[1].duration = sess.clock

\* C14: in WebSocket hold mode all N sessions are open at one time, so no
\* task opens a session after it has closed one.
C14_AllSessionsConcurrent ==
    (is_websocket /\ ws_duration # None) =>
        \A w \in WorkerIds : InCall(w) => wsent[w] = 0

\* C16: a call whose peer never answers comes to an end, with a result for
\* the task to send: the timeout bounds the WebSocket handshake as it
\* bounds the HTTP call.
C16_HandshakeTimesOut ==
    \A w \in WorkerIds : (wpc[w] = "stalled") ~> (wpc[w] = "send")

\* C17: with a method that is neither WS nor an HTTP method the run makes
\* no network call, every result is a failure with no status code and the
\* unsupported-method message, and the run ends with N failures, no success
\* and an empty status tally.
C17_UnsupportedMethod ==
    method = "FOO" =>
        /\ net_calls = 0
        /\ answers = EmptyBag
        /\ \A r \in BagToSet(produced) :
              /\ ~r.success
              /\ r.status_code = None
              /\ r.error = Some("unsupported HTTP method: FOO")
        /\ pc = "done" =>
              /\ failed_requests = requests
              /\ successful_requests = 0
              /\ http_status_code_counts = EmptyBag
              /\ error_messages = Only("unsupported HTTP method: FOO", requests)

\* C17 witness: a run of three units with the method FOO ended
C17_Witness ==
    /\ pc = "done"
    /\ method = "FOO"
    /\ requests = 3
    /\ failed_requests = 3

Min(a, b) == IF a < b THEN a ELSE b

\* C18: a task is inside a call only with every result of its earlier units
\* sent and none held; the units it has started exceed the results it has
\* sent by at most 1; the calls in flight never exceed the tasks spawned,
\* which are min(N, C) once the spawn loop is over.
C18_SequentialWorkers ==
    /\ \A w \in WorkerIds :
          /\ InCall(w) =>
                /\ wresult[w] = None
                /\ wsent[w] = worker_requests[w] - wleft[w] - 1
          /\ worker_requests[w] - wleft[w] - wsent[w] \in {0, 1}
    /\ Cardinality({w \in WorkerIds : InCall(w)}) <= Len(handles)
    /\ Len(handles) <= Min(requests, concurrency)
    /\ pc \in {"recv", "join", "done"} => Len(handles) = Min(requests, concurrency)

\* C18 witness: two tasks are inside a call at once, one of them in its
\* second unit
C18_Witness ==
    /\ InCall(0)
    /\ InCall(1)
    /\ wsent[0] = 1

\* C19: every failure result produced carries a message, the unknown-error
\* key is never counted, and the error tally sums to the number of failure
\* results received.
C19_FailuresCarryMessage ==
    /\ \A r \in BagToSet(produced) : ~r.success => r.error # None
    /\ CopiesIn("unknown error", error_messages) = 0
    /\ BagCardinality(error_messages) = CountWhere(received, IsFailure)

\* C19 witness: a WebSocket run has had a failed connect and a failed send
\* tallied
C19_Witness ==
    /\ is_websocket
    /\ CopiesIn("WebSocket connect failed: connection refused", error_messages) = 1
    /\ CopiesIn("WebSocket send failed: connection closed", error_messages) = 1

\* C20: in every state the histogram holds as many samples as there are
\* successes counted.
C20_SamplesEqualSuccesses ==
    BagCardinality(histogram) = successful_requests

\* C20 witness: a run ended with one success, one 500 response that took
\* time, and one panicked task
C20_Witness ==
    /\ pc = "done"
    /\ \E w \in WorkerIds : wpc[w] = "panicked"
    /\ successful_requests = 1
    /\ failed_requests = 2
    /\ \E r \in BagToSet(received) :
          r.status_code = Some(500) /\ r.duration > 0
    /\ BagCardinality(histogram) = 1

====
